---- MODULE Spec2Model ----
(***************************************************************************)
(* Namespace backup / restore service (net_exercise).                      *)
(*                                                                         *)
(* The HTTP handlers defineApplication, performBackup and restoreBackup,   *)
(* the nine exporters Backup<Kind> and the nine importers restore<Kind>    *)
(* are modelled over an abstract cluster (List / Get / Create per kind and *)
(* namespace) and an abstract disk (one directory per backup id).          *)
(*                                                                         *)
(* Object and file names are sequences of tokens ("pod-", "a", ".json"):   *)
(* no token is a prefix of another, so strings.HasPrefix, the "<kind>-*"   *)
(* globs and the lexical order of file names are decided on the tokens     *)
(* exactly as on the strings they spell.                                   *)
(***************************************************************************)
EXTENDS Naturals, Sequences, FiniteSets, TLC

VARIABLES
    cluster,              \* the live objects of the cluster (all namespaces)
    disk,                 \* ./backups: directory id -> (file name -> bytes)
    appCounter,           \* var appCounter
    backupCounter,        \* var backupCounter
    apps,                 \* var apps: app_id -> Application
    appNameNamespaceMap,  \* var appNameNamespaceMap: key -> app_id
    backups,              \* var backups: the registered backup ids
    bk,                   \* a performBackup request in flight (per handler)
    rs,                   \* a restoreBackup request in flight (per handler)
    faults,               \* failures the collaborators may still report
    restarts,             \* process restarts so far
    restores,             \* restore requests accepted so far
    updates,              \* updates of live objects by other clients so far
    lastRun,              \* the last completed restore, while nothing changed since
    resp,                 \* the last response of defineApplication
    da                    \* a defineApplication request in flight (per handler)

vars == <<cluster, disk, appCounter, backupCounter, apps, appNameNamespaceMap,
          backups, bk, rs, faults, restarts, restores, updates, lastRun,
          resp, da>>

(***************************************************************************)
(* Bounds                                                                  *)
(***************************************************************************)
MaxBackups == 1
MaxFaults == 1
MaxRestarts == 1
MaxRestores == 2
MaxUpdates == 1
MaxApps == 3

(***************************************************************************)
(* Kinds, names, files                                                     *)
(***************************************************************************)
\* the keys of restoreFuncs
Kinds == {"pvc", "pod", "replicaset", "deployment", "configmap", "service",
          "statefulset", "serviceaccount", "secret"}

\* the order in which performBackup calls the exporters
ExportOrder == <<"pvc", "pod", "replicaset", "deployment", "configmap",
                 "statefulset", "service", "serviceaccount", "secret">>

\* the importers that list the namespace once and scan the listing by name
ListScanKinds == {"pvc", "pod", "replicaset", "deployment", "configmap", "statefulset"}

\* the exporters that Stat the destination and skip an existing file
SkipIfExistsKinds == {"configmap", "statefulset", "service"}

RootCA == <<"kube-root-ca.crt">>

Procs == {1, 2}

\* namespaces are token sequences too; <<>> is the empty string
Src == <<"src">>

Dst == <<"dst">>

Namespaces == {Src, Dst}

NoNs == <<>>

\* the file-name prefix "<kind>-" of a kind
Prefix(k) ==
    CASE k = "pvc" -> "pvc-"
      [] k = "pod" -> "pod-"
      [] k = "replicaset" -> "replicaset-"
      [] k = "deployment" -> "deployment-"
      [] k = "configmap" -> "configmap-"
      [] k = "service" -> "service-"
      [] k = "statefulset" -> "statefulset-"
      [] k = "serviceaccount" -> "serviceaccount-"
      [] k = "secret" -> "secret-"

\* position of a token in the lexical (byte) order of the strings
TokRank(t) ==
    CASE t = ".json" -> 0
      [] t = "a" -> 1
      [] t = "configmap-" -> 2
      [] t = "deployment-" -> 3
      [] t = "kube-root-ca.crt" -> 4
      [] t = "pod-" -> 5
      [] t = "pvc-" -> 6
      [] t = "replicaset-" -> 7
      [] t = "secret-" -> 8
      [] t = "service-" -> 9
      [] t = "serviceaccount-" -> 10
      [] t = "statefulset-" -> 11

RECURSIVE NameLess(_, _)
\* f sorts before g (sort.Strings in Glob, ReadDir's sorted entries)
NameLess(f, g) ==
    IF f = <<>> THEN g # <<>>
    ELSE IF g = <<>> THEN FALSE
    ELSE IF Head(f) = Head(g) THEN NameLess(Tail(f), Tail(g))
    ELSE TokRank(Head(f)) < TokRank(Head(g))

RECURSIVE SortNames(_)
\* a set of file names as the sorted sequence the directory calls return
SortNames(S) ==
    IF S = {} THEN <<>>
    ELSE LET m == CHOOSE f \in S : \A g \in S \ {f} : NameLess(f, g)
         IN  <<m>> \o SortNames(S \ {m})

\* mutant: the claims are written under their kind prefix like the others
ExportFilePrefixed(k, name) == <<Prefix(k)>> \o name \o <<".json">>

\* destination file of an exporter:
\* fmt.Sprintf("%s.json", pvc.Name) for the claims, "<kind>-<name>.json" otherwise
ExportFile(k, name) ==
    IF k = "pvc" THEN name \o <<".json">>
    ELSE <<Prefix(k)>> \o name \o <<".json">>

\* filepath.Glob(dir, "<k>-*.json") matches the file name f
GlobMatch(k, f) ==
    /\ Len(f) >= 2
    /\ Head(f) = Prefix(k)
    /\ f[Len(f)] = ".json"

\* strings.HasPrefix(file.Name(), "<k>-")
HasPrefix(k, f) == Len(f) >= 1 /\ Head(f) = Prefix(k)

DirExists(d) == d \in DOMAIN disk

\* the file names of directory d (none when the directory does not exist)
DirFiles(d) == IF DirExists(d) THEN DOMAIN disk[d] ELSE {}

\* filepath.Glob(filepath.Join(backupDir, "<k>-*.json")): sorted, I/O errors ignored
Glob(d, k) == SortNames({f \in DirFiles(d) : GlobMatch(k, f)})

(***************************************************************************)
(* Objects, their JSON form, the cluster                                   *)
(***************************************************************************)
\* A live object: the three metadata fields the importers address, the
\* kind-specific payload (data) and, for a service, spec.clusterIP / clusterIPs.
Obj(k, name, n, rv, data) ==
    [kind |-> k, name |-> name, ns |-> n, rv |-> rv, data |-> data,
     clusterIP  |-> IF k = "service" THEN "10.0.0.1" ELSE "",
     clusterIPs |-> IF k = "service" THEN <<"10.0.0.1">> ELSE <<>>]

\* the zero value of the Go struct of kind k
ZeroObj(k) ==
    [kind |-> k, name |-> <<>>, ns |-> NoNs, rv |-> "", data |-> 0,
     clusterIP |-> "", clusterIPs |-> <<>>]

\* bytes that are not a JSON document (a write that failed part-way)
Corrupt ==
    [valid |-> FALSE, struct |-> "", name |-> <<>>, namespace |-> NoNs,
     resourceVersion |-> "", payload |-> 0, clusterIP |-> "", clusterIPs |-> <<>>]

\* json.MarshalIndent(obj, "", "  "): the metadata keys and the keys of the
\* struct that was serialized (struct names whose keys the document carries)
Marshal(o) ==
    [valid |-> TRUE, struct |-> o.kind, name |-> o.name, namespace |-> o.ns,
     resourceVersion |-> o.rv, payload |-> o.data,
     clusterIP |-> o.clusterIP, clusterIPs |-> o.clusterIPs]

\* json.Unmarshal(bytes, &obj) into the struct of kind k: metadata is common to
\* all kinds; keys of another struct are unknown to k and dropped
Unmarshal(k, bytes) ==
    [kind |-> k, name |-> bytes.name, ns |-> bytes.namespace,
     rv |-> bytes.resourceVersion,
     data |-> IF bytes.struct = k THEN bytes.payload ELSE 0,
     clusterIP  |-> IF bytes.struct = k THEN bytes.clusterIP ELSE "",
     clusterIPs |-> IF bytes.struct = k THEN bytes.clusterIPs ELSE <<>>]

\* mutant: a listing returns the objects of every kind of the namespace
ClusterListAnyKind(k, n) == {o \in cluster : o.ns = n}

\* <Kind>(namespace).List(ctx, ListOptions{}).Items
ClusterList(k, n) == {o \in cluster : o.kind = k /\ o.ns = n}

\* mutant: Get answers NotFound whatever is live
ClusterHasNever(k, n, name) == FALSE

\* <Kind>(namespace).Get(ctx, name, GetOptions{}) answers err == nil
ClusterHas(k, n, name) == \E o \in cluster : o.kind = k /\ o.ns = n /\ o.name = name

\* the object the cluster stores for <Kind>(namespace).Create(ctx, &obj, ...):
\* it lives in the request's namespace, gets a revision of the cluster's own,
\* and a service without an address gets one allocated
Stored(n, o) ==
    [o EXCEPT !.ns = n, !.rv = "rv9",
              !.clusterIP  = IF o.kind = "service" /\ o.clusterIP = ""
                             THEN "10.0.0.9" ELSE o.clusterIP,
              !.clusterIPs = IF o.kind = "service" /\ o.clusterIPs = <<>>
                             THEN <<"10.0.0.9">> ELSE o.clusterIPs]

(***************************************************************************)
(* Kind policy: what each exporter and importer does to an object          *)
(***************************************************************************)
\* mutant: the config-map exporter without its name test
ExportSkipsNothing(k, name) == FALSE

\* BackupConfigMaps: if cm.Name == "kube-root-ca.crt" { continue }
ExportSkipsName(k, name) == k = "configmap" /\ name = RootCA

\* mutant: the exporters without the Stat test, every file is written again
SkipExistingNever(k, d, f) == FALSE

\* if _, err := os.Stat(filename); err == nil { continue }
SkipExisting(k, d, f) == k \in SkipIfExistsKinds /\ f \in DirFiles(d)

\* mutant: no exporter clears a field before marshalling
ExportNormalizeNone(k, o) == o

\* ObjectMeta.Namespace = "" ; ObjectMeta.ResourceVersion = "" before marshalling
ExportNormalize(k, o) ==
    IF k \in SkipIfExistsKinds THEN [o EXCEPT !.ns = NoNs, !.rv = ""] ELSE o

\* mutant: the service importer without the two address assignments
ImportNormalizeKeepsAddress(k, o, n) ==
    IF k = "configmap" THEN o ELSE [o EXCEPT !.ns = n, !.rv = ""]

\* what the importer of kind k changes between Unmarshal and Create
ImportNormalize(k, o, n) ==
    CASE k = "configmap" -> o
      [] k = "service" -> [o EXCEPT !.ns = n, !.rv = "", !.clusterIP = "",
                                     !.clusterIPs = <<>>]
      [] OTHER -> [o EXCEPT !.ns = n, !.rv = ""]

\* mutant: the conflict is decided on the live namespace, file by file
InListingLive(existing, o) ==
    \E e \in cluster : e.kind = o.kind /\ e.ns = o.ns /\ e.name = o.name

\* mutant: the scan of the listing never sets exists
InListingNever(existing, o) == FALSE

\* list-scan: for _, existing := range existing<Kind>.Items { if existing.Name == obj.Name }
InListing(existing, o) == \E e \in existing : e.name = o.name

(***************************************************************************)
(* Handler state                                                           *)
(***************************************************************************)
EmptyFn == [x \in {} |-> 0]

IdleBackup ==
    [pc |-> "idle", app |-> 0, id |-> 0, ns |-> NoNs, step |-> 0, items |-> {},
     result |-> "", tmp |-> 0]

\* defineApplication: the locals app, appNameNamespaceKey and appID (tmp is the
\* value appCounter++ has read and not yet written back)
IdleDefine ==
    [pc |-> "idle", name |-> <<>>, namespace |-> NoNs, key |-> <<>>, tmp |-> 0,
     id |-> 0]

IdleRestore ==
    [pc |-> "idle", dir |-> 0, ns |-> NoNs, todo |-> {}, kind |-> "", calls |-> 0,
     existing |-> {}, files |-> <<>>, obj |-> ZeroObj(""), result |-> "",
     created |-> 0, faulted |-> FALSE, second |-> FALSE, fresh |-> FALSE,
     reg |-> FALSE, before |-> {}, resumes |-> FALSE, origin |-> {}]

NoRun == [dir |-> 0, ns |-> NoNs, clean |-> FALSE, ok |-> FALSE, before |-> {}]

\* no request is being handled
Quiet == \A p \in Procs : bk[p].pc \in {"idle", "done"} /\ rs[p].pc \in {"idle", "done"}

(***************************************************************************)
(* defineApplication                                                       *)
(***************************************************************************)
\* fmt.Sprintf("%s_%s", app.Name, app.Namespace)
AppKey(name, n) == name \o <<"_">> \o n

\* no response of defineApplication yet
NoResp == [status |-> 0, app_id |-> 0, existing_app_id |-> 0]

\* mutant: the lookup is left out, every request is registered
defineApplicationUnchecked(name, n) ==
    /\ appCounter < MaxApps
    /\ appCounter' = appCounter + 1
    /\ apps' = (appCounter' :> [name |-> name, namespace |-> n]) @@ apps
    /\ appNameNamespaceMap' = (AppKey(name, n) :> appCounter') @@ appNameNamespaceMap
    /\ resp' = [status |-> 200, app_id |-> appCounter', existing_app_id |-> 0]
    /\ UNCHANGED <<cluster, disk, backupCounter, backups, bk, rs, faults, restarts,
                   lastRun, restores, updates, da>>

\* the key is looked up in appNameNamespaceMap: a hit is answered 400 with the
\* id found, otherwise appCounter++ and both maps are written, answered 200
defineApplication(name, n) ==
    LET key == AppKey(name, n)
    IN  /\ \/ /\ key \in DOMAIN appNameNamespaceMap
              /\ resp' = [status |-> 400, app_id |-> 0,
                          existing_app_id |-> appNameNamespaceMap[key]]
              /\ UNCHANGED <<appCounter, apps, appNameNamespaceMap>>
           \/ /\ key \notin DOMAIN appNameNamespaceMap
              /\ appCounter < MaxApps
              /\ appCounter' = appCounter + 1
              /\ apps' = (appCounter' :> [name |-> name, namespace |-> n]) @@ apps
              /\ appNameNamespaceMap' = (key :> appCounter') @@ appNameNamespaceMap
              /\ resp' = [status |-> 200, app_id |-> appCounter',
                          existing_app_id |-> 0]
        /\ UNCHANGED <<cluster, disk, backupCounter, backups, bk, rs, faults, restarts,
                       lastRun, restores, updates, da>>

(***************************************************************************)
(* performBackup and the exporters                                         *)
(***************************************************************************)
\* os.WriteFile(filename, bytes, 0644) succeeded
WriteFile(d, f, bytes) == [disk EXCEPT ![d] = (f :> bytes) @@ disk[d]]

\* mutant: the error of an exporter is noted and the next exporter is called
BackupFailContinue(b, e) ==
    IF b.step >= 1 /\ b.step < Len(ExportOrder)
    THEN [b EXCEPT !.pc = "export", !.step = b.step + 1, !.result = e, !.items = {}]
    ELSE [b EXCEPT !.pc = "done", !.result = e, !.items = {}]

\* performBackup returned with an error response; nothing is rolled back
BackupFail(b, e) == [b EXCEPT !.pc = "done", !.result = e, !.items = {}]

\* the exporter at b.step returned nil: the next exporter, or the registration
\* backups[backupID] = backup and the 200 response
AfterExporter(b) ==
    IF b.step < Len(ExportOrder)
    THEN [b EXCEPT !.pc = "export", !.step = b.step + 1, !.items = {}]
    ELSE [b EXCEPT !.pc = "done", !.result = "ok", !.items = {}]

\* the loop over the listing goes on with the items left
AfterItem(b, left) ==
    IF left = {} THEN AfterExporter(b) ELSE [b EXCEPT !.pc = "write", !.items = left]

\* the effect of a handler step on the registry of backups
Registered(b2) ==
    IF b2.pc = "done" /\ b2.result = "ok" THEN (b2.id :> b2.app) @@ backups ELSE backups

\* the request arrives: app lookup, backupCounter++, MkdirAll
StartBackup(p, appId) ==
    /\ bk[p].pc \in {"idle", "done"}
    /\ \/ /\ appId \notin DOMAIN apps
          /\ bk' = [bk EXCEPT ![p] = BackupFail(IdleBackup, "Invalid app_id")]
          /\ UNCHANGED <<backupCounter, disk, faults>>
       \/ /\ appId \in DOMAIN apps
          /\ backupCounter < MaxBackups
          /\ backupCounter' = backupCounter + 1
          /\ \/ /\ faults > 0
                /\ faults' = faults - 1
                /\ bk' = [bk EXCEPT ![p] =
                            BackupFail([IdleBackup EXCEPT !.id = backupCounter'],
                                       "MkdirError")]
                /\ UNCHANGED disk
             \/ /\ disk' = IF DirExists(backupCounter') THEN disk
                           ELSE (backupCounter' :> EmptyFn) @@ disk
                /\ bk' = [bk EXCEPT ![p] =
                            [IdleBackup EXCEPT !.pc = "export", !.id = backupCounter',
                                               !.app = appId,
                                               !.ns = apps[appId].namespace,
                                               !.step = 1]]
                /\ UNCHANGED faults
    /\ lastRun' = NoRun
    /\ UNCHANGED <<cluster, appCounter, apps, appNameNamespaceMap, backups, rs, restarts,
                   restores, updates, resp, da>>

\* Backup<Kind>: the List call of the exporter at b.step
ExportList(p) ==
    LET b == bk[p]
        k == ExportOrder[b.step]
    IN  /\ b.pc = "export"
        /\ \/ /\ faults > 0
              /\ faults' = faults - 1
              /\ bk' = [bk EXCEPT ![p] = BackupFail(b, "ListError")]
              /\ UNCHANGED backups
           \/ /\ LET b2 == AfterItem(b, ClusterList(k, b.ns))
                 IN  /\ bk' = [bk EXCEPT ![p] = b2]
                     /\ backups' = Registered(b2)
              /\ UNCHANGED faults
        /\ UNCHANGED <<cluster, disk, appCounter, backupCounter, apps,
                       appNameNamespaceMap, rs, restarts, lastRun, restores, updates, resp, da>>

\* Backup<Kind>: one iteration of the loop over the listed items
ExportItem(p) ==
    LET b == bk[p]
        k == ExportOrder[b.step]
    IN  /\ b.pc = "write"
        /\ \E o \in b.items :
             LET f  == ExportFile(k, o.name)
                 b2 == AfterItem(b, b.items \ {o})
                 reg == Registered(b2)
             IN  \/ /\ ExportSkipsName(k, o.name) \/ SkipExisting(k, b.id, f)
                    /\ bk' = [bk EXCEPT ![p] = b2]
                    /\ backups' = reg
                    /\ UNCHANGED <<disk, faults>>
                 \/ /\ ~ExportSkipsName(k, o.name)
                    /\ ~SkipExisting(k, b.id, f)
                    /\ \/ /\ bk' = [bk EXCEPT ![p] = b2]
                          /\ backups' = reg
                          /\ disk' = WriteFile(b.id, f, Marshal(ExportNormalize(k, o)))
                          /\ UNCHANGED faults
                       \/ /\ faults > 0
                          /\ faults' = faults - 1
                          /\ bk' = [bk EXCEPT ![p] = BackupFail(b, "WriteError")]
                          /\ \/ disk' = disk
                             \/ disk' = WriteFile(b.id, f, Corrupt)
                          /\ UNCHANGED backups
        /\ UNCHANGED <<cluster, appCounter, backupCounter, apps, appNameNamespaceMap,
                       rs, restarts, lastRun, restores, updates, resp, da>>

(***************************************************************************)
(* restoreBackup, RestoreResources and the importers                       *)
(***************************************************************************)
\* RestoreResources returned: the locals are gone, the response is sent
RestoreDone(r, res) ==
    [r EXCEPT !.pc = "done", !.result = res, !.todo = {}, !.kind = "", !.calls = 0,
              !.existing = {}, !.files = <<>>, !.obj = ZeroObj("")]

\* mutant: the error is noted and the loop goes on with the next file
RestoreFailContinue(r, e) ==
    [r EXCEPT !.result = e, !.pc = IF r.todo = {} THEN "done" ELSE "range",
              !.kind = "", !.calls = 0, !.existing = {}, !.files = <<>>,
              !.obj = ZeroObj("")]

\* if err != nil { return err }, in an importer and again in RestoreResources
RestoreFail(r, e) == RestoreDone(r, e)

\* one restore<Kind> call returned nil: RestoreResources calls it again for the
\* next file of its own glob, or goes on with the range over restoreFuncs
AfterCall(r) ==
    IF r.calls > 1
    THEN [r EXCEPT !.pc = "call", !.calls = r.calls - 1, !.existing = {},
                   !.files = <<>>, !.obj = ZeroObj("")]
    ELSE [r EXCEPT !.pc = "range", !.kind = "", !.calls = 0, !.existing = {},
                   !.files = <<>>, !.obj = ZeroObj("")]

\* the importer's loop goes on with the files left of its own list
AfterFile(r) ==
    IF Len(r.files) > 1
    THEN [r EXCEPT !.pc = "file", !.files = Tail(r.files), !.obj = ZeroObj("")]
    ELSE AfterCall(r)

\* mutant: the service-account importer tests the prefix as the other two do
ImporterFilesByPrefix(k, d) ==
    IF k \in ListScanKinds THEN Glob(d, k)
    ELSE SortNames({f \in DirFiles(d) : HasPrefix(k, f)})

\* the files an importer iterates: its own glob for the list-scan kinds, the
\* ReadDir entries with the prefix test for service and secret, every ReadDir
\* entry for serviceaccount
ImporterFiles(k, d) ==
    IF k \in ListScanKinds THEN Glob(d, k)
    ELSE IF k = "serviceaccount" THEN SortNames(DirFiles(d))
    ELSE SortNames({f \in DirFiles(d) : HasPrefix(k, f)})

\* what a restore step leaves in lastRun
RunRecord(r2) ==
    IF r2.pc = "done"
    THEN [dir |-> r2.dir, ns |-> r2.ns, clean |-> ~r2.faulted, ok |-> r2.result = "ok",
          before |-> r2.before]
    ELSE NoRun

\* mutant: restoreResources is called without the look at the namespace
StartRestoreUnchecked(p, n, id) ==
    /\ rs[p].pc \in {"idle", "done"}
    /\ restores < MaxRestores
    /\ restores' = restores + 1
    /\ rs' = [rs EXCEPT ![p] =
                [IdleRestore EXCEPT !.pc = "range", !.dir = id, !.ns = n,
                                    !.todo = Kinds, !.before = cluster]]
    /\ lastRun' = NoRun
    /\ UNCHANGED <<cluster, disk, appCounter, backupCounter, apps, appNameNamespaceMap,
                   backups, bk, restarts, faults, updates, resp, da>>

\* the request arrives: the target namespace is looked up, then RestoreResources
\* is entered with backupDir = ./backups/<backup_id>
StartRestore(p, n, id) ==
    /\ rs[p].pc \in {"idle", "done"}
    /\ restores < MaxRestores
    /\ restores' = restores + 1
    /\ \/ /\ n \notin Namespaces
          /\ rs' = [rs EXCEPT ![p] =
                      RestoreDone(IdleRestore, "Namespace does not exist")]
          /\ UNCHANGED faults
       \/ /\ faults > 0
          /\ faults' = faults - 1
          /\ rs' = [rs EXCEPT ![p] =
                      RestoreDone(IdleRestore, "Namespace does not exist")]
       \/ /\ n \in Namespaces
          /\ rs' = [rs EXCEPT ![p] =
                      [IdleRestore EXCEPT !.pc = "range", !.dir = id, !.ns = n,
                                          !.todo = Kinds,
                                          !.second = (lastRun.dir = id /\ lastRun.ns = n
                                                      /\ lastRun.clean),
                                          !.fresh = (\A o \in cluster : o.ns # n),
                                          !.reg = (id \in DOMAIN backups),
                                          !.before = cluster,
                                          !.resumes = (lastRun.dir = id /\ lastRun.ns = n
                                                       /\ ~lastRun.clean),
                                          !.origin = lastRun.before]]
          /\ UNCHANGED faults
    /\ lastRun' = NoRun
    /\ UNCHANGED <<cluster, disk, appCounter, backupCounter, apps, appNameNamespaceMap,
                   backups, bk, restarts,
                   updates, resp, da>>

\* mutant: when the range is over, the files of the directory are removed
RangeKindsConsumes(p) ==
    LET r == rs[p]
        ready == {k \in r.todo : Glob(r.dir, k) # <<>>}
    IN  /\ r.pc = "range"
        /\ \/ /\ ready = {}
              /\ rs' = [rs EXCEPT ![p] = RestoreDone(r, "ok")]
              /\ lastRun' = RunRecord(RestoreDone(r, "ok"))
              /\ disk' = [d \in DOMAIN disk |->
                            IF d = r.dir THEN EmptyFn ELSE disk[d]]
           \/ /\ \E k \in ready :
                   rs' = [rs EXCEPT ![p] =
                            [r EXCEPT !.pc = "call", !.kind = k,
                                      !.calls = Len(Glob(r.dir, k)),
                                      !.todo = r.todo \ {k}]]
              /\ UNCHANGED <<lastRun, disk>>
        /\ UNCHANGED <<cluster, appCounter, backupCounter, apps,
                       appNameNamespaceMap, backups, bk, faults, restarts,
                       restores, updates, resp, da>>

\* for resourceType, restoreFunc := range restoreFuncs: the map is ranged in any
\* order. An iteration whose Glob is empty executes no statement, so the step
\* goes to any kind not yet visited whose Glob has files, or ends the range.
RangeKinds(p) ==
    LET r == rs[p]
        ready == {k \in r.todo : Glob(r.dir, k) # <<>>}
    IN  /\ r.pc = "range"
        /\ \/ /\ ready = {}
              /\ rs' = [rs EXCEPT ![p] = RestoreDone(r, "ok")]
              /\ lastRun' = RunRecord(RestoreDone(r, "ok"))
           \/ /\ \E k \in ready :
                   rs' = [rs EXCEPT ![p] =
                            [r EXCEPT !.pc = "call", !.kind = k,
                                      !.calls = Len(Glob(r.dir, k)),
                                      !.todo = r.todo \ {k}]]
              /\ UNCHANGED lastRun
        /\ UNCHANGED <<cluster, disk, appCounter, backupCounter, apps,
                       appNameNamespaceMap, backups, bk, faults, restarts,
                   restores, updates, resp, da>>

\* restore<Kind>(file, namespace, backupDir, clientset) is entered: the listing of
\* the target namespace (list-scan kinds) or ReadDir (the others), then the
\* importer's own list of files
CallImporter(p) ==
    LET r == rs[p]
        files == ImporterFiles(r.kind, r.dir)
        r2 == IF files = <<>> THEN AfterCall(r)
              ELSE [r EXCEPT !.pc = "file", !.files = files,
                             !.existing = IF r.kind \in ListScanKinds
                                          THEN ClusterList(r.kind, r.ns) ELSE {}]
        rf == RestoreFail([r EXCEPT !.faulted = TRUE],
                          IF r.kind \in ListScanKinds THEN "ListError"
                          ELSE "ReadDirError")
    IN  /\ r.pc = "call"
        /\ \/ /\ faults > 0
              /\ faults' = faults - 1
              /\ rs' = [rs EXCEPT ![p] = rf]
              /\ lastRun' = RunRecord(rf)
           \/ /\ rs' = [rs EXCEPT ![p] = r2]
              /\ lastRun' = RunRecord(r2)
              /\ UNCHANGED faults
        /\ UNCHANGED <<cluster, disk, appCounter, backupCounter, apps,
                       appNameNamespaceMap, backups, bk, restarts,
                   restores, updates, resp, da>>

\* one iteration of an importer's loop up to the decision to create: ReadFile,
\* Unmarshal, the kind's normalisation and the conflict check (a scan of the
\* listing, or a Get by name)
ImportFile(p) ==
    LET r == rs[p]
        k == r.kind
        bytes == disk[r.dir][Head(r.files)]
        o == ImportNormalize(k, Unmarshal(k, bytes), r.ns)
        conflict == IF k \in ListScanKinds THEN InListing(r.existing, o)
                    ELSE ClusterHas(k, r.ns, o.name)
        r2 == IF ~bytes.valid THEN RestoreFail(r, "ParseError")
              ELSE IF conflict THEN AfterFile(r)
              ELSE [r EXCEPT !.pc = "create", !.obj = o]
    IN  /\ r.pc = "file"
        /\ \/ /\ faults > 0
              /\ faults' = faults - 1
              /\ \E e \in {"ReadError"} \cup (IF k \in ListScanKinds \/ ~bytes.valid
                                              THEN {} ELSE {"GetError"}) :
                   LET rf == RestoreFail([r EXCEPT !.faulted = TRUE], e)
                   IN  /\ rs' = [rs EXCEPT ![p] = rf]
                       /\ lastRun' = RunRecord(rf)
           \/ /\ rs' = [rs EXCEPT ![p] = r2]
              /\ lastRun' = RunRecord(r2)
              /\ UNCHANGED faults
        /\ UNCHANGED <<cluster, disk, appCounter, backupCounter, apps,
                       appNameNamespaceMap, backups, bk, restarts,
                   restores, updates, resp, da>>

\* mutant: an AlreadyExists answer of Create is taken as one more skip
AfterCreateSkipsExisting(r, dup) ==
    IF dup THEN AfterFile(r) ELSE AfterFile([r EXCEPT !.created = r.created + 1])

\* _, err = ...Create(...); if err != nil { return err }: AlreadyExists (dup) is
\* an error like any other, otherwise the loop goes on
AfterCreate(r, dup) ==
    IF dup THEN RestoreFail(r, "AlreadyExists")
    ELSE AfterFile([r EXCEPT !.created = r.created + 1])

\* mutant: Create replaces a live object of the same kind, namespace and name
ClusterAfterCreateReplaces(r, dup) ==
    {o \in cluster : ~(o.kind = r.kind /\ o.ns = r.ns /\ o.name = r.obj.name)}
        \cup {Stored(r.ns, r.obj)}

\* the cluster after the Create call: the object is added unless one of its
\* kind, namespace and name is live (AlreadyExists)
ClusterAfterCreate(r, dup) ==
    IF dup THEN cluster ELSE cluster \cup {Stored(r.ns, r.obj)}

\* <Kind>(namespace).Create(ctx, &obj, CreateOptions{}) and its error check
CreateObject(p) ==
    LET r == rs[p]
        dup == ClusterHas(r.kind, r.ns, r.obj.name)
        r2 == AfterCreate(r, dup)
        rf == RestoreFail([r EXCEPT !.faulted = TRUE], "CreateError")
    IN  /\ r.pc = "create"
        /\ \/ /\ faults > 0
              /\ faults' = faults - 1
              /\ rs' = [rs EXCEPT ![p] = rf]
              /\ lastRun' = RunRecord(rf)
              /\ UNCHANGED cluster
           \/ /\ rs' = [rs EXCEPT ![p] = r2]
              /\ lastRun' = RunRecord(r2)
              /\ cluster' = ClusterAfterCreate(r, dup)
              /\ UNCHANGED faults
        /\ UNCHANGED <<disk, appCounter, backupCounter, apps, appNameNamespaceMap,
                       backups, bk, restarts,
                   restores, updates, resp, da>>

(***************************************************************************)
(* The environment: other users of the cluster, process restarts           *)
(***************************************************************************)
\* another client of the cluster updates a live object: new payload, new revision
UpdateObject(o) ==
    /\ o \in cluster
    /\ o.data = 1
    /\ o.rv = "rv1"
    /\ updates < MaxUpdates
    /\ updates' = updates + 1
    /\ cluster' = (cluster \ {o}) \cup {[o EXCEPT !.data = 2, !.rv = "rv2"]}
    /\ lastRun' = NoRun
    /\ UNCHANGED <<disk, appCounter, backupCounter, apps, appNameNamespaceMap,
                   backups, bk, rs, faults, restarts,
                   restores, resp, da>>

\* the process is started again: the package-level variables are initialised
\* anew, ./backups and the cluster are as they were
Restart ==
    /\ restarts < MaxRestarts
    /\ restarts' = restarts + 1
    /\ appCounter' = 0
    /\ backupCounter' = 0
    /\ apps' = EmptyFn
    /\ appNameNamespaceMap' = EmptyFn
    /\ backups' = EmptyFn
    /\ bk' = [p \in Procs |-> IdleBackup]
    /\ rs' = [p \in Procs |-> IdleRestore]
    /\ da' = [p \in Procs |-> IdleDefine]
    /\ lastRun' = NoRun
    /\ UNCHANGED <<cluster, disk, faults, restores, updates, resp>>

(***************************************************************************)
(* The handlers statement by statement: requests served on goroutines of   *)
(* their own share appCounter, backupCounter and the maps without a lock   *)
(***************************************************************************)
\* defineApplication up to the lookup of the key in appNameNamespaceMap
defineApplicationLookup(p, name, n) ==
    LET key == AppKey(name, n)
    IN  /\ da[p].pc \in {"idle", "done"}
        /\ \/ /\ key \in DOMAIN appNameNamespaceMap
              /\ resp' = [status |-> 400, app_id |-> 0,
                          existing_app_id |-> appNameNamespaceMap[key]]
              /\ da' = [da EXCEPT ![p] = [IdleDefine EXCEPT !.pc = "done"]]
           \/ /\ key \notin DOMAIN appNameNamespaceMap
              /\ da' = [da EXCEPT ![p] =
                          [IdleDefine EXCEPT !.pc = "load", !.name = name,
                                             !.namespace = n, !.key = key]]
              /\ UNCHANGED resp
        /\ UNCHANGED <<cluster, disk, appCounter, backupCounter, apps,
                       appNameNamespaceMap, backups, bk, rs, faults, restarts,
                       lastRun, restores, updates>>

\* appCounter++ : the read
defineApplicationLoad(p) ==
    /\ da[p].pc = "load"
    /\ appCounter < MaxApps
    /\ da' = [da EXCEPT ![p] = [@ EXCEPT !.pc = "store", !.tmp = appCounter]]
    /\ UNCHANGED <<cluster, disk, appCounter, backupCounter, apps,
                   appNameNamespaceMap, backups, bk, rs, faults, restarts,
                   lastRun, restores, updates, resp>>

\* appCounter++ : the write
defineApplicationStore(p) ==
    /\ da[p].pc = "store"
    /\ appCounter' = da[p].tmp + 1
    /\ da' = [da EXCEPT ![p] = [@ EXCEPT !.pc = "format"]]
    /\ UNCHANGED <<cluster, disk, backupCounter, apps, appNameNamespaceMap,
                   backups, bk, rs, faults, restarts, lastRun, restores, updates,
                   resp>>

\* appID := fmt.Sprintf("app_%d", appCounter)
defineApplicationFormat(p) ==
    /\ da[p].pc = "format"
    /\ da' = [da EXCEPT ![p] = [@ EXCEPT !.pc = "write", !.id = appCounter]]
    /\ UNCHANGED <<cluster, disk, appCounter, backupCounter, apps,
                   appNameNamespaceMap, backups, bk, rs, faults, restarts,
                   lastRun, restores, updates, resp>>

\* apps[appID] = app ; appNameNamespaceMap[key] = appID ; the 200 response
defineApplicationWrite(p) ==
    /\ da[p].pc = "write"
    /\ apps' = (da[p].id :> [name |-> da[p].name, namespace |-> da[p].namespace])
                    @@ apps
    /\ appNameNamespaceMap' = (da[p].key :> da[p].id) @@ appNameNamespaceMap
    /\ resp' = [status |-> 200, app_id |-> da[p].id, existing_app_id |-> 0]
    /\ da' = [da EXCEPT ![p] = [@ EXCEPT !.pc = "done"]]
    /\ UNCHANGED <<cluster, disk, appCounter, backupCounter, backups, bk, rs,
                   faults, restarts, lastRun, restores, updates>>

\* performBackup up to the lookup of the application
performBackupLookup(p, appId) ==
    /\ bk[p].pc \in {"idle", "done"}
    /\ \/ /\ appId \notin DOMAIN apps
          /\ bk' = [bk EXCEPT ![p] = BackupFail(IdleBackup, "Invalid app_id")]
       \/ /\ appId \in DOMAIN apps
          /\ bk' = [bk EXCEPT ![p] =
                      [IdleBackup EXCEPT !.pc = "load", !.app = appId,
                                         !.ns = apps[appId].namespace]]
    /\ lastRun' = NoRun
    /\ UNCHANGED <<cluster, disk, appCounter, backupCounter, apps,
                   appNameNamespaceMap, backups, rs, faults, restarts, restores,
                   updates, resp, da>>

\* backupCounter++ : the read
performBackupLoad(p) ==
    /\ bk[p].pc = "load"
    /\ backupCounter < MaxBackups
    /\ bk' = [bk EXCEPT ![p] = [@ EXCEPT !.pc = "store", !.tmp = backupCounter]]
    /\ UNCHANGED <<cluster, disk, appCounter, backupCounter, apps,
                   appNameNamespaceMap, backups, rs, faults, restarts, lastRun,
                   restores, updates, resp, da>>

\* backupCounter++ : the write
performBackupStore(p) ==
    /\ bk[p].pc = "store"
    /\ backupCounter' = bk[p].tmp + 1
    /\ bk' = [bk EXCEPT ![p] = [@ EXCEPT !.pc = "mkdir"]]
    /\ UNCHANGED <<cluster, disk, appCounter, apps, appNameNamespaceMap, backups,
                   rs, faults, restarts, lastRun, restores, updates, resp, da>>

\* backupID := fmt.Sprintf("backup_%d", backupCounter) ; os.MkdirAll(backupDir)
performBackupMkdir(p) ==
    /\ bk[p].pc = "mkdir"
    /\ \/ /\ faults > 0
          /\ faults' = faults - 1
          /\ bk' = [bk EXCEPT ![p] =
                      BackupFail([@ EXCEPT !.id = backupCounter], "MkdirError")]
          /\ UNCHANGED disk
       \/ /\ disk' = IF DirExists(backupCounter) THEN disk
                      ELSE (backupCounter :> EmptyFn) @@ disk
          /\ bk' = [bk EXCEPT ![p] =
                      [@ EXCEPT !.pc = "export", !.id = backupCounter, !.step = 1]]
          /\ UNCHANGED faults
    /\ UNCHANGED <<cluster, appCounter, backupCounter, apps, appNameNamespaceMap,
                   backups, rs, restarts, lastRun, restores, updates, resp, da>>

(***************************************************************************)
(* Initial states and the specification                                    *)
(***************************************************************************)
\* an object as another client created it in the source namespace
Live(k, name) == Obj(k, name, Src, "rv1", 1)

\* the objects the source namespace may hold: one of each kind under a plain
\* name, and the names that meet another kind's file prefix or the root CA
Universe ==
    {Live(k, <<"a">>) : k \in Kinds}
    \cup {Live("pvc", <<"pvc-", "a">>), Live("pvc", <<"pod-", "a">>),
          Live("pod", <<"pod-", "a">>), Live("pvc", <<"configmap-", "a">>),
          Live("configmap", RootCA),
          Live("pvc", <<"configmap-", "kube-root-ca.crt">>)}

\* the source namespace holds nothing, one of them, or a listed pair or triple
\* of objects whose files or names meet
InitialClusters ==
    {{}}
    \cup {{x} : x \in Universe}
    \cup {{Live("pod", <<"a">>), Live("configmap", <<"a">>)},
          {Live("pod", <<"a">>), Live("serviceaccount", <<"a">>)},
          {Live("service", <<"a">>), Live("secret", <<"a">>)},
          {Live("configmap", <<"a">>), Live("configmap", RootCA)},
          {Live("pvc", <<"pod-", "a">>), Live("pod", <<"a">>)},
          {Live("pvc", <<"pod-", "a">>), Live("pod", <<"pod-", "a">>)},
          {Live("pvc", <<"configmap-", "a">>), Live("configmap", <<"a">>)},
          {Live("pvc", <<"pod-", "a">>), Live("pod", <<"pod-", "a">>),
           Live("secret", <<"a">>)}}

AppNames == {<<"mariadb">>}

Ghost == <<"ghost">>

Init ==
    /\ cluster \in InitialClusters
    /\ disk = EmptyFn
    /\ appCounter = 0
    /\ backupCounter = 0
    /\ apps = EmptyFn
    /\ appNameNamespaceMap = EmptyFn
    /\ backups = EmptyFn
    /\ bk = [p \in Procs |-> IdleBackup]
    /\ rs = [p \in Procs |-> IdleRestore]
    /\ faults = MaxFaults
    /\ restarts = 0
    /\ restores = 0
    /\ updates = 0
    /\ lastRun = NoRun
    /\ resp = NoResp
    /\ da = [p \in Procs |-> IdleDefine]

\* requests are handled one at a time, by handler 1
HandlerNext ==
    \/ \E name \in AppNames : Quiet /\ defineApplication(name, Src)
    \/ \E a \in {1, 2} : Quiet /\ StartBackup(1, a)
    \/ ExportList(1)
    \/ ExportItem(1)
    \/ \E n \in Namespaces \cup {Ghost}, id \in 1..MaxBackups :
         Quiet /\ StartRestore(1, n, id)
    \/ RangeKinds(1)
    \/ CallImporter(1)
    \/ ImportFile(1)
    \/ CreateObject(1)

Next == HandlerNext

\* the service alone: registrations, backups and restores, one request at a time
Spec == Init /\ [][Next]_vars

\* backups over the life of the directory ./backups: between requests other
\* clients update live objects and the process is restarted
BackupNext ==
    \/ \E name \in AppNames : Quiet /\ defineApplication(name, Src)
    \/ \E a \in {1, 2} : Quiet /\ StartBackup(1, a)
    \/ ExportList(1)
    \/ ExportItem(1)
    \/ \E o \in cluster : Quiet /\ UpdateObject(o)
    \/ Quiet /\ Restart

SpecBackup == Init /\ [][BackupNext]_vars

\* names and namespaces of registration requests, some with the separator of
\* the registry key inside
RegNames == {<<"mariadb">>, <<"a">>, <<"a", "_", "b">>}

RegNamespaces == {Src, <<"b", "_", "src">>}

InitApps == Init /\ cluster = {}

\* registration requests, handled one after another, over restarts
AppsNext ==
    \/ \E name \in RegNames, n \in RegNamespaces : defineApplication(name, n)
    \/ Restart

SpecApps == InitApps /\ [][AppsNext]_vars

\* registrations and backups served concurrently, statement by statement
RaceNext ==
    \/ \E p \in Procs, name \in AppNames : defineApplicationLookup(p, name, Src)
    \/ \E p \in Procs : defineApplicationLoad(p)
    \/ \E p \in Procs : defineApplicationStore(p)
    \/ \E p \in Procs : defineApplicationFormat(p)
    \/ \E p \in Procs : defineApplicationWrite(p)
    \/ \E p \in Procs, a \in {1, 2} : performBackupLookup(p, a)
    \/ \E p \in Procs : performBackupLoad(p)
    \/ \E p \in Procs : performBackupStore(p)
    \/ \E p \in Procs : performBackupMkdir(p)
    \/ \E p \in Procs : ExportList(p)
    \/ \E p \in Procs : ExportItem(p)

\* the races are looked at over an empty namespace and one holding one pod
InitRace == Init /\ cluster \in {{}, {Live("pod", <<"a">>)}}

SpecRace == InitRace /\ [][RaceNext]_vars

\* no performBackup request is being handled
NoBackupRunning == \A p \in Procs : bk[p].pc \in {"idle", "done"}

\* gin serves every request on a goroutine of its own: restore requests are
\* taken while another restore is running, and their steps interleave
ConcurrentNext ==
    \/ \E name \in AppNames : Quiet /\ defineApplication(name, Src)
    \/ \E a \in {1, 2} : Quiet /\ StartBackup(1, a)
    \/ ExportList(1)
    \/ ExportItem(1)
    \/ \E p \in Procs, n \in Namespaces \cup {Ghost}, id \in 1..MaxBackups :
         NoBackupRunning /\ StartRestore(p, n, id)
    \/ \E p \in Procs : RangeKinds(p)
    \/ \E p \in Procs : CallImporter(p)
    \/ \E p \in Procs : ImportFile(p)
    \/ \E p \in Procs : CreateObject(p)

SpecConcurrent == Init /\ [][ConcurrentNext]_vars

(***************************************************************************)
(* C1. Idempotent restore: when RunRestore(B, N) is run a second time right *)
(* after a first run with the same B and N (B the directory of a completed  *)
(* backup, nothing else touched the cluster or the directory, no            *)
(* collaborator failed in either run), the second run creates nothing and   *)
(* returns success.                                                         *)
(***************************************************************************)
IdempotentRestore ==
    \A p \in Procs :
        (rs[p].pc = "done" /\ rs[p].second /\ ~rs[p].faulted
         /\ rs[p].reg)
            => (rs[p].created = 0 /\ rs[p].result = "ok")

\* the objects of the source namespace as other clients created them: in a
\* behaviour without updates they were live, as they are, at every backup
Originals == {o \in cluster : o.ns = Src /\ o.rv = "rv1"}

\* restore p has returned success, for the directory of a backup that had
\* completed, into a namespace that held no object when it was requested
RestoredFresh(p) ==
    /\ rs[p].pc = "done"
    /\ rs[p].result = "ok"
    /\ rs[p].reg
    /\ rs[p].fresh

(***************************************************************************)
(* C2. Restore completeness: after a successful backup of the source        *)
(* namespace and a successful restore of it into a namespace that held      *)
(* nothing, every object of the source namespace other than the root-CA     *)
(* config-map exists in the target under the same kind and name.            *)
(***************************************************************************)
RestoreComplete ==
    \A p \in Procs :
        RestoredFresh(p) =>
            \A o \in Originals :
                ~(o.kind = "configmap" /\ o.name = RootCA)
                    => ClusterHas(o.kind, rs[p].ns, o.name)

(***************************************************************************)
(* C3. Round trip: after such a backup and restore, every object of the     *)
(* source namespace (other than the root-CA config-map) has a live copy of  *)
(* its kind and name in the target whose payload equals its own.            *)
(***************************************************************************)
RoundTrip ==
    \A p \in Procs :
        RestoredFresh(p) =>
            \A o \in Originals :
                ~(o.kind = "configmap" /\ o.name = RootCA)
                    => \E c \in cluster :
                          /\ c.kind = o.kind
                          /\ c.ns = rs[p].ns
                          /\ c.name = o.name
                          /\ c.data = o.data

(***************************************************************************)
(* C4. Namespace rewrite: the object an importer is about to hand to        *)
(* Create has the target namespace in its namespace field.                  *)
(***************************************************************************)
NamespaceRewrite ==
    \A p \in Procs : rs[p].pc = "create" => rs[p].obj.ns = rs[p].ns

(***************************************************************************)
(* C5. Revision clearing: the object an importer is about to hand to        *)
(* Create has an empty resourceVersion.                                     *)
(***************************************************************************)
RevisionCleared ==
    \A p \in Procs : rs[p].pc = "create" => rs[p].obj.rv = ""

\* the bytes of the file restore p is working on
CurrentBytes(p) == disk[rs[p].dir][Head(rs[p].files)]

(***************************************************************************)
(* C6. Service address reset: a service about to be handed to Create has    *)
(* an empty ClusterIP and no ClusterIPs, whatever the file records; an      *)
(* object of any other kind carries the payload and address fields exactly  *)
(* as they were read from the file.                                         *)
(***************************************************************************)
ServiceAddressReset ==
    \A p \in Procs :
        rs[p].pc = "create" =>
            LET read == Unmarshal(rs[p].kind, CurrentBytes(p))
            IN  IF rs[p].kind = "service"
                THEN rs[p].obj.clusterIP = "" /\ rs[p].obj.clusterIPs = <<>>
                ELSE /\ rs[p].obj.clusterIP = read.clusterIP
                     /\ rs[p].obj.clusterIPs = read.clusterIPs
                     /\ rs[p].obj.data = read.data

\* a service whose file records an address is about to be created
ServiceAddressResetWitness ==
    \E p \in Procs :
        /\ rs[p].pc = "create"
        /\ rs[p].kind = "service"
        /\ CurrentBytes(p).clusterIP # ""
        /\ CurrentBytes(p).clusterIPs # <<>>

(***************************************************************************)
(* C7. Config-map exclusion: no backup directory holds a config-map         *)
(* snapshot of the root-CA config-map: no file written from a config-map,   *)
(* and no file the config-map importer reads, records the name              *)
(* kube-root-ca.crt; while the root CA is the only live config-map of the   *)
(* source namespace no file written from a config-map exists at all.        *)
(***************************************************************************)
RootCAExcluded ==
    \A d \in DOMAIN disk :
        \A f \in DOMAIN disk[d] :
            /\ (disk[d][f].struct = "configmap" \/ GlobMatch("configmap", f))
                   => disk[d][f].name # RootCA
            /\ (\A o \in ClusterList("configmap", Src) : o.name = RootCA)
                   => disk[d][f].struct # "configmap"

\* a backup of a namespace that holds the root-CA config-map has gone through
\* the config-map exporter and completed
RootCAExcludedWitness ==
    \E p \in Procs :
        /\ bk[p].pc = "done"
        /\ bk[p].result = "ok"
        /\ \E o \in ClusterList("configmap", bk[p].ns) : o.name = RootCA
        /\ \E o \in ClusterList("configmap", bk[p].ns) :
              ExportFile("configmap", o.name) \in DirFiles(bk[p].id)

\* the kind whose exporter backup p is running
ExportKind(p) == ExportOrder[bk[p].step]

(***************************************************************************)
(* C8. Skip-if-exists export: a step of the config-map, stateful-set or     *)
(* service exporter leaves the bytes of every file that already exists      *)
(* unchanged, and it fails only on an object whose destination file did     *)
(* not exist.                                                               *)
(***************************************************************************)
SkipIfExistsExport ==
    [][\A p \in Procs :
          (bk[p].pc = "write" /\ ExportKind(p) \in SkipIfExistsKinds
           /\ bk'[p] # bk[p])
              => /\ \A f \in DirFiles(bk[p].id) :
                       disk'[bk[p].id][f] = disk[bk[p].id][f]
                 /\ bk'[p].result = "WriteError"
                       => \E o \in bk[p].items :
                             ExportFile(ExportKind(p), o.name)
                                 \notin DirFiles(bk[p].id)]_vars

\* a backup into a directory used before has completed, and the file of an
\* object that was updated since still holds the older payload
SkipIfExistsExportWitness ==
    \E p \in Procs :
        /\ bk[p].pc = "done"
        /\ bk[p].result = "ok"
        /\ restarts > 0
        /\ \E o \in cluster :
              /\ o.ns = bk[p].ns
              /\ o.kind \in SkipIfExistsKinds
              /\ o.data = 2
              /\ ExportFile(o.kind, o.name) \in DirFiles(bk[p].id)
              /\ disk[bk[p].id][ExportFile(o.kind, o.name)].payload = 1

\* the conflict check of restore p, at the file it is working on, meets a live
\* object with the snapshot's name: in the listing taken when the importer was
\* entered (list-scan kinds), or in the target namespace (the other kinds)
ConflictFound(p) ==
    /\ rs[p].pc = "file"
    /\ CurrentBytes(p).valid
    /\ IF rs[p].kind \in ListScanKinds
       THEN \E e \in rs[p].existing : e.name = CurrentBytes(p).name
       ELSE \E e \in cluster : /\ e.kind = rs[p].kind
                               /\ e.ns = rs[p].ns
                               /\ e.name = CurrentBytes(p).name

(***************************************************************************)
(* C9. Conflict means skip: when the conflict check of an importer finds a  *)
(* live object with the snapshot's name and no collaborator call fails in   *)
(* that step, no create is issued for the snapshot, the cluster is left as  *)
(* it is, no error is recorded and the importer goes on with the files left.*)
(***************************************************************************)
ConflictMeansSkip ==
    [][\A p \in Procs :
          (ConflictFound(p) /\ rs'[p] # rs[p] /\ faults' = faults)
              => /\ rs'[p].pc \in {"file", "call", "range"}
                 /\ rs'[p].result = ""
                 /\ rs'[p].created = rs[p].created
                 /\ cluster' = cluster
                 /\ rs'[p].pc = "file" => rs'[p].files = Tail(rs[p].files)]_vars

\* a conflict was skipped and the importer is at the next file of its list
ConflictMeansSkipWitness ==
    \E p \in Procs :
        /\ rs[p].pc = "file"
        /\ rs[p].created = 0
        /\ Len(rs[p].files) < Len(ImporterFiles(rs[p].kind, rs[p].dir))
        /\ \A f \in DirFiles(rs[p].dir) : disk[rs[p].dir][f].valid

IsError(res) == res \notin {"", "ok"}

(***************************************************************************)
(* C10. Fail-fast restore: the step of a restore in which a call fails ends *)
(* the restore at once with that error and creates nothing; from then on    *)
(* the restore issues no create and its result stays, until a new request   *)
(* arrives; the objects created before stay in the cluster.                 *)
(***************************************************************************)
FailFastRestore ==
    [][\A p \in Procs :
          /\ (~IsError(rs[p].result) /\ IsError(rs'[p].result)
              /\ restores' = restores)
                => (rs'[p].pc = "done" /\ cluster' = cluster
                    /\ rs'[p].created = rs[p].created)
          /\ (IsError(rs[p].result) /\ restores' = restores)
                => (rs'[p] = rs[p] /\ cluster' = cluster)
          /\ rs[p].pc \notin {"idle", "done"} => cluster \subseteq cluster']_vars

\* a restore has failed after it had created an object, which is still live
FailFastRestoreWitness ==
    \E p \in Procs :
        /\ rs[p].pc = "done"
        /\ IsError(rs[p].result)
        /\ rs[p].created > 0
        /\ \E o \in cluster : o.ns = rs[p].ns /\ o.rv = "rv9"

(***************************************************************************)
(* C11. Fail-fast backup: a backup keeps its namespace and directory and    *)
(* enters the nine exporters in order, each once, answering success only    *)
(* after the ninth; the step in which an exporter fails ends the backup,    *)
(* after which it enters no exporter and writes no file; no file of any     *)
(* backup directory is ever removed.                                        *)
(***************************************************************************)
FailFastBackup ==
    [][\A p \in Procs :
          /\ (bk[p].pc \in {"export", "write"} /\ bk'[p] # bk[p]
              /\ restarts' = restarts)
                => /\ bk'[p].id = bk[p].id
                   /\ bk'[p].ns = bk[p].ns
                   /\ bk'[p].step \in {bk[p].step, bk[p].step + 1}
                   /\ bk'[p].step = bk[p].step + 1 => bk'[p].pc = "export"
                   /\ bk'[p].result = "ok" => bk[p].step = Len(ExportOrder)
                   /\ IsError(bk'[p].result) => bk'[p].pc = "done"
          /\ (bk[p].pc = "done" /\ IsError(bk[p].result)
              /\ backupCounter' = backupCounter)
                => /\ disk' = disk
                   /\ bk'[p].pc \in {"idle", "done"}
          /\ \A d \in DOMAIN disk :
                /\ d \in DOMAIN disk'
                /\ DOMAIN disk[d] \subseteq DOMAIN disk'[d]]_vars

\* a backup has failed in a later exporter, and a file that an earlier exporter
\* wrote is still in its directory
FailFastBackupWitness ==
    \E p \in Procs :
        /\ bk[p].pc = "done"
        /\ IsError(bk[p].result)
        /\ bk[p].step >= 2
        /\ \E f \in DirFiles(bk[p].id) : disk[bk[p].id][f].valid

\* the importers that ask the cluster for the snapshot's name, file by file
DirectGetKinds == Kinds \ ListScanKinds

(***************************************************************************)
(* C12. Direct-get conflict check: the step of the service, service-account *)
(* or secret importer that reads a well-formed file and asks the cluster    *)
(* for its name creates nothing itself; when an object of that kind and     *)
(* name is live in the target namespace the file is skipped, when none is   *)
(* the object goes to Create, and when the read or the get fails the        *)
(* restore ends with that error; the file is left behind either way, so     *)
(* each file of a call is asked about once.                                 *)
(***************************************************************************)
DirectGetCheck ==
    [][\A p \in Procs :
          (rs[p].kind \in DirectGetKinds /\ rs'[p] # rs[p]
           /\ restores' = restores)
              => /\ (rs[p].pc = "file" /\ CurrentBytes(p).valid)
                      => LET live == \E o \in cluster :
                                        /\ o.kind = rs[p].kind
                                        /\ o.ns = rs[p].ns
                                        /\ o.name = CurrentBytes(p).name
                         IN  /\ cluster' = cluster
                             /\ rs'[p].created = rs[p].created
                             /\ (faults' = faults /\ live)
                                   => /\ rs'[p].pc \in {"file", "call", "range"}
                                      /\ rs'[p].result = ""
                             /\ (faults' = faults /\ ~live)
                                   => /\ rs'[p].pc = "create"
                                      /\ rs'[p].obj.name = CurrentBytes(p).name
                                      /\ rs'[p].files = rs[p].files
                             /\ faults' # faults
                                   => /\ rs'[p].pc = "done"
                                      /\ rs'[p].result \in {"ReadError", "GetError"}
                 /\ (rs[p].pc \in {"file", "create"} /\ rs'[p].pc = "file")
                      => rs'[p].files = Tail(rs[p].files)]_vars

\* a restore that had created an object has ended on the failed get of a
\* direct-get importer
DirectGetCheckWitness ==
    \E p \in Procs :
        /\ rs[p].pc = "done"
        /\ rs[p].result = "GetError"
        /\ rs[p].created > 0

(***************************************************************************)
(* C13. At most one create per (kind, name, namespace): while two restores  *)
(* of one backup directory into one namespace are in progress or done, no   *)
(* Create call is issued for a kind and name that a Create call of a        *)
(* restore has already made live in that namespace.                         *)
(***************************************************************************)
AtMostOneCreate ==
    [][\A p \in Procs :
          (/\ rs[p].pc = "create"
           /\ rs'[p] # rs[p]
           /\ faults' = faults
           /\ \E q \in Procs \ {p} : /\ rs[q].pc # "idle"
                                     /\ rs[q].dir = rs[p].dir
                                     /\ rs[q].ns = rs[p].ns)
              => ~\E o \in cluster : /\ o.kind = rs[p].kind
                                     /\ o.ns = rs[p].ns
                                     /\ o.name = rs[p].obj.name
                                     /\ o.rv = "rv9"]_vars

(***************************************************************************)
(* C14. Create-time already-exists is fatal: when Create is called for an   *)
(* object whose kind and name are live in the target namespace (it has      *)
(* appeared since the conflict check), the restore ends with the error      *)
(* AlreadyExists; the file is not skipped and nothing is created.           *)
(***************************************************************************)
AlreadyExistsFatal ==
    [][\A p \in Procs :
          (/\ rs[p].pc = "create"
           /\ rs'[p] # rs[p]
           /\ faults' = faults
           /\ \E o \in cluster : /\ o.kind = rs[p].kind
                                  /\ o.ns = rs[p].ns
                                  /\ o.name = rs[p].obj.name)
              => /\ rs'[p].pc = "done"
                 /\ rs'[p].result = "AlreadyExists"
                 /\ rs'[p].created = rs[p].created
                 /\ cluster' = cluster]_vars

\* one of two restores of the same directory into the same namespace has ended
\* with AlreadyExists after the other one created an object
AlreadyExistsFatalWitness ==
    \E p \in Procs :
        /\ rs[p].pc = "done"
        /\ rs[p].result = "AlreadyExists"
        /\ \E q \in Procs \ {p} : /\ rs[q].created > 0
                                  /\ rs[q].dir = rs[p].dir
                                  /\ rs[q].ns = rs[p].ns

(***************************************************************************)
(* C15. Restore never mutates the backup set: no step of a restore request, *)
(* from its arrival to its response, successful or failed, adds, removes or *)
(* rewrites a file of any backup directory.                                 *)
(***************************************************************************)
RestoreKeepsBackup ==
    [][(\E p \in Procs : rs'[p] # rs[p]) => disk' = disk]_vars

\* a restore has read the files of its directory, created objects from them
\* and answered success
RestoreKeepsBackupWitness ==
    \E p \in Procs :
        /\ rs[p].pc = "done"
        /\ rs[p].result = "ok"
        /\ rs[p].created > 0
        /\ DirFiles(rs[p].dir) # {}

(***************************************************************************)
(* C16. Create-only cluster mutation: no step of a backup changes the       *)
(* cluster, and every step of the service leaves each live object live      *)
(* with the content it had: objects are added, none is updated or deleted.  *)
(***************************************************************************)
CreateOnly ==
    [][/\ cluster \subseteq cluster'
       /\ (\E p \in Procs : bk'[p] # bk[p]) => cluster' = cluster]_vars

\* a restore into the source namespace itself has completed, and an object
\* whose snapshot is in the directory is live there as it was before
CreateOnlyWitness ==
    \E p \in Procs :
        /\ rs[p].pc = "done"
        /\ rs[p].result = "ok"
        /\ rs[p].ns = Src
        /\ \E o \in cluster :
              /\ o.ns = Src
              /\ o.rv = "rv1"
              /\ o \in rs[p].before
              /\ ExportFile(o.kind, o.name) \in DirFiles(rs[p].dir)

(***************************************************************************)
(* C17. Directory access failure is fatal to restore: a restore whose       *)
(* backup directory does not exist answers an error and creates nothing.    *)
(***************************************************************************)
MissingDirectoryFails ==
    \A p \in Procs :
        (rs[p].pc = "done" /\ rs[p].ns \in Namespaces /\ ~DirExists(rs[p].dir))
            => (IsError(rs[p].result) /\ rs[p].created = 0)

\* the two registries agree and hold every application once: ids are 1 ..
\* appCounter, no two ids carry the same name and namespace, and the key map
\* leads from the key of each application to its id and to nothing else
RegistryUnique ==
    /\ DOMAIN apps = 1..appCounter
    /\ \A i, j \in DOMAIN apps :
          (apps[i].name = apps[j].name /\ apps[i].namespace = apps[j].namespace)
              => i = j
    /\ \A i \in DOMAIN apps :
          /\ AppKey(apps[i].name, apps[i].namespace) \in DOMAIN appNameNamespaceMap
          /\ appNameNamespaceMap[AppKey(apps[i].name, apps[i].namespace)] = i
    /\ \A k \in DOMAIN appNameNamespaceMap : appNameNamespaceMap[k] \in DOMAIN apps

NoCrossKindRestore ==
    \A o \in cluster :
        o.rv = "rv9"
            => \E d \in DOMAIN disk :
                  \E f \in DOMAIN disk[d] :
                      /\ disk[d][f].struct = o.kind
                      /\ disk[d][f].name = o.name

\* the names of the objects of kind k that were live in the target namespace
\* when restore p was requested
NamesBefore(p, k) ==
    {o.name : o \in {x \in rs[p].before : x.kind = k /\ x.ns = rs[p].ns}}

\* the files that the importer of kind k goes through in restore p
FilesOf(p, k) ==
    LET F == ImporterFiles(k, rs[p].dir) IN {F[i] : i \in 1..Len(F)}

\* restore p calls the importer of kind k
Called(p, k) == Glob(rs[p].dir, k) # <<>>

\* told from the directory and the cluster before the restore alone: the
\* importer of kind k fails on a file that is no JSON document, and a
\* list-scan importer fails on the second of two files that record one name
\* which its listing does not hold
KindFails(p, k) ==
    LET bytes == disk[rs[p].dir]
    IN  \/ \E f \in FilesOf(p, k) : ~bytes[f].valid
        \/ /\ k \in ListScanKinds
           /\ \E f, g \in FilesOf(p, k) :
                 /\ f # g
                 /\ bytes[f].name = bytes[g].name
                 /\ bytes[f].name \notin NamesBefore(p, k)

\* told in the same way: the objects the importer of kind k adds, one for each
\* name its files record that was not live before, read from the first file
\* (in the order of the file names) that records the name
AddedBy(p, k) ==
    LET bytes == disk[rs[p].dir]
    IN  {Stored(rs[p].ns, ImportNormalize(k, Unmarshal(k, bytes[f]), rs[p].ns)) :
            f \in {g \in FilesOf(p, k) :
                     /\ bytes[g].name \notin NamesBefore(p, k)
                     /\ \A h \in FilesOf(p, k) \ {g} :
                           bytes[h].name = bytes[g].name => NameLess(g, h)}}

(***************************************************************************)
(* C20. Kind-order independence: whatever order the range over the kinds    *)
(* takes, a restore in which no collaborator fails answers success exactly  *)
(* when no importer it calls must fail on the directory's files, and then   *)
(* the cluster is the cluster before the restore plus the objects each      *)
(* called importer adds: result and final object set are fixed by the       *)
(* directory and the cluster before the restore, not by the order. (Read   *)
(* when the restore has returned and no request has come since.)            *)
(***************************************************************************)
KindOrderIndependent ==
    \A p \in Procs :
        (/\ rs[p].pc = "done"
         /\ rs[p].ns \in Namespaces
         /\ ~rs[p].faulted
         /\ lastRun = RunRecord(rs[p]))
            => /\ rs[p].result = "ok"
                    <=> \A k \in Kinds : Called(p, k) => ~KindFails(p, k)
               /\ rs[p].result = "ok"
                    => cluster = rs[p].before
                                   \cup UNION {AddedBy(p, k) :
                                                 k \in {j \in Kinds : Called(p, j)}}

\* a restore has completed in which the importers of two kinds each created an
\* object
KindOrderIndependentWitness ==
    \E p \in Procs :
        /\ rs[p].pc = "done"
        /\ rs[p].result = "ok"
        /\ ~rs[p].faulted
        /\ lastRun = RunRecord(rs[p])
        /\ \E o1, o2 \in cluster \ rs[p].before : o1.kind # o2.kind

(***************************************************************************)
(* C21. One importer call per kind: in one restore the importer of a kind   *)
(* is entered once, from the range over the kinds and never again for the   *)
(* same kind, and the range ends only when the importer of each of the nine *)
(* kinds has been entered, whatever files the directory holds.              *)
(***************************************************************************)
OneCallPerKind ==
    [][\A p \in Procs :
          /\ (rs'[p].pc = "call" /\ rs'[p] # rs[p]) => rs[p].pc = "range"
          /\ (rs[p].pc = "range" /\ rs'[p].pc = "done") => rs[p].todo = {}]_vars

(***************************************************************************)
(* C22. List-scan conflict check: a call of a list-scan importer takes the  *)
(* listing of its kind in the target namespace when it is entered, before   *)
(* any of its files is processed, and keeps it to the end of the call; each *)
(* file is skipped when the listing holds its name and goes to Create when  *)
(* it does not, whatever has become live in the namespace since.            *)
(***************************************************************************)
ListScanSingleListing ==
    [][\A p \in Procs :
          (rs[p].kind \in ListScanKinds /\ rs'[p] # rs[p] /\ restores' = restores)
              => /\ (rs[p].pc = "call" /\ rs'[p].pc = "file")
                      => /\ rs'[p].existing =
                               {o \in cluster : o.kind = rs[p].kind /\ o.ns = rs[p].ns}
                         /\ rs'[p].files = Glob(rs[p].dir, rs[p].kind)
                 /\ (rs[p].pc \in {"file", "create"} /\ rs'[p].pc \in {"file", "create"})
                      => rs'[p].existing = rs[p].existing
                 /\ (rs[p].pc = "file" /\ CurrentBytes(p).valid /\ faults' = faults)
                      => IF \E e \in rs[p].existing : e.name = CurrentBytes(p).name
                         THEN rs'[p].pc # "create" /\ rs'[p].result = ""
                         ELSE rs'[p].pc = "create"]_vars

\* a list-scan importer goes to Create for a name that has become live since
\* its listing was taken
ListScanSingleListingWitness ==
    \E p \in Procs :
        /\ rs[p].pc = "create"
        /\ rs[p].kind \in ListScanKinds
        /\ \A e \in rs[p].existing : e.name # rs[p].obj.name
        /\ \E o \in cluster : /\ o.kind = rs[p].kind
                               /\ o.ns = rs[p].ns
                               /\ o.name = rs[p].obj.name

(***************************************************************************)
(* C23. Persistent-volume-claim naming asymmetry: the file that holds the   *)
(* snapshot of the claim named n is n.json, without a kind prefix; a claim  *)
(* that a restore has created bears a name that begins with pvc-.           *)
(***************************************************************************)
PVCNamingAsymmetry ==
    /\ \A d \in DOMAIN disk :
          \A f \in DOMAIN disk[d] :
              (disk[d][f].valid /\ disk[d][f].struct = "pvc")
                  => f = disk[d][f].name \o <<".json">>
    /\ \A o \in cluster :
          (o.kind = "pvc" /\ o.rv = "rv9")
              => (Len(o.name) >= 2 /\ Head(o.name) = "pvc-")

\* a restore has re-created the claim named pvc-a from the file pvc-a.json
PVCNamingAsymmetryWitness ==
    \E o \in cluster :
        /\ o.kind = "pvc"
        /\ o.rv = "rv9"
        /\ o.name = <<"pvc-", "a">>
        /\ \E d \in DOMAIN disk : <<"pvc-", "a", ".json">> \in DOMAIN disk[d]

(***************************************************************************)
(* C24. Service-account discovery by full directory scan: a call of the     *)
(* service-account importer goes through every entry of the directory, in   *)
(* the order of the names and with no test of the name; an entry whose      *)
(* recorded name no live service account of the target namespace bears      *)
(* goes to Create as a service account of that name.                        *)
(***************************************************************************)
ServiceAccountFullScan ==
    [][\A p \in Procs :
          (rs[p].kind = "serviceaccount" /\ rs'[p] # rs[p] /\ restores' = restores
           /\ faults' = faults)
              => /\ rs[p].pc = "call"
                      => /\ rs'[p].pc = "file"
                         /\ rs'[p].files = SortNames(DirFiles(rs[p].dir))
                 /\ (rs[p].pc \in {"file", "create"} /\ rs'[p].pc = "file")
                      => rs'[p].files = Tail(rs[p].files)
                 /\ (/\ rs[p].pc = "file"
                     /\ CurrentBytes(p).valid
                     /\ ~\E o \in cluster : /\ o.kind = "serviceaccount"
                                             /\ o.ns = rs[p].ns
                                             /\ o.name = CurrentBytes(p).name)
                      => /\ rs'[p].pc = "create"
                         /\ rs'[p].obj.kind = "serviceaccount"
                         /\ rs'[p].obj.name = CurrentBytes(p).name
                         /\ rs'[p].obj.ns = rs[p].ns]_vars

\* a service account is live that a restore created from the file of an object
\* of another kind: it has the name the file records and none of its content
ServiceAccountFullScanWitness ==
    \E o \in cluster :
        /\ o.kind = "serviceaccount"
        /\ o.rv = "rv9"
        /\ o.data = 0
        /\ \E d \in DOMAIN disk :
              \E f \in DOMAIN disk[d] :
                  /\ ~HasPrefix("serviceaccount", f)
                  /\ disk[d][f].name = o.name

(***************************************************************************)
(* C25. Export normalization by kind: the file an exporter writes for a     *)
(* live object records the object's kind, name, payload and addresses as    *)
(* they are; its namespace and resourceVersion are recorded empty by the    *)
(* config-map, stateful-set and service exporters and as they are by the    *)
(* other six. No other file of the directory changes in that step.          *)
(***************************************************************************)
ExportNormalization ==
    [][\A p \in Procs :
          (bk[p].pc = "write" /\ disk' # disk /\ faults' = faults)
              => \E o \in bk[p].items :
                    LET k == ExportKind(p)
                        f == ExportFile(k, o.name)
                        cleared == k \in {"configmap", "statefulset", "service"}
                    IN  /\ o \in cluster
                        /\ DOMAIN disk'[bk[p].id] = DOMAIN disk[bk[p].id] \cup {f}
                        /\ \A g \in DOMAIN disk[bk[p].id] \ {f} :
                              disk'[bk[p].id][g] = disk[bk[p].id][g]
                        /\ disk'[bk[p].id][f] =
                              [valid |-> TRUE, struct |-> k, name |-> o.name,
                               namespace |-> IF cleared THEN <<>> ELSE o.ns,
                               resourceVersion |-> IF cleared THEN "" ELSE o.rv,
                               payload |-> o.data,
                               clusterIP |-> o.clusterIP,
                               clusterIPs |-> o.clusterIPs]]_vars

\* one directory holds the file of a service, with its address and without
\* namespace and revision, and the file of a secret with both
ExportNormalizationWitness ==
    \E d \in DOMAIN disk :
        /\ <<"service-", "a", ".json">> \in DOMAIN disk[d]
        /\ <<"secret-", "a", ".json">> \in DOMAIN disk[d]
        /\ disk[d][<<"service-", "a", ".json">>].namespace = <<>>
        /\ disk[d][<<"service-", "a", ".json">>].clusterIP # ""
        /\ disk[d][<<"secret-", "a", ".json">>].namespace = Src
        /\ disk[d][<<"secret-", "a", ".json">>].resourceVersion # ""

\* the exporters that write the destination file whether or not it exists
OverwriteKinds == Kinds \ SkipIfExistsKinds

(***************************************************************************)
(* C26. Always-overwrite export: when a backup answers success, the         *)
(* destination file of every live persistent-volume-claim, pod,             *)
(* replica-set, deployment, service-account and secret of the namespace     *)
(* holds the serialization of the object as it is live.                     *)
(***************************************************************************)
AlwaysOverwrite ==
    [][\A p \in Procs :
          (bk[p].pc # "done" /\ bk'[p].pc = "done" /\ bk'[p].result = "ok")
              => \A o \in cluster' :
                    (o.ns = bk'[p].ns /\ o.kind \in OverwriteKinds)
                        => LET f == ExportFile(o.kind, o.name)
                           IN  /\ f \in DOMAIN disk'[bk'[p].id]
                               /\ disk'[bk'[p].id][f] =
                                     [valid |-> TRUE, struct |-> o.kind,
                                      name |-> o.name, namespace |-> o.ns,
                                      resourceVersion |-> o.rv, payload |-> o.data,
                                      clusterIP |-> o.clusterIP,
                                      clusterIPs |-> o.clusterIPs]]_vars

\* the files F of a directory after the exporter at position i of the export
\* order has run to its end over namespace n
ExporterRun(i, F, n) ==
    LET k == ExportOrder[i]
        written == {o \in cluster :
                      /\ o.kind = k
                      /\ o.ns = n
                      /\ ~(k = "configmap" /\ o.name = RootCA)
                      /\ ~(k \in SkipIfExistsKinds
                           /\ ExportFile(k, o.name) \in DOMAIN F)}
    IN  [f \in DOMAIN F \cup {ExportFile(k, o.name) : o \in written} |->
            IF \E o \in written : ExportFile(k, o.name) = f
            THEN Marshal(ExportNormalize(k,
                     CHOOSE o \in written : ExportFile(k, o.name) = f))
            ELSE F[f]]

RECURSIVE ExportFrom(_, _, _)
\* the files after the exporters from position i on have run
ExportFrom(i, F, n) ==
    IF i > Len(ExportOrder) THEN F ELSE ExportFrom(i + 1, ExporterRun(i, F, n), n)

\* the files of one uninterrupted export of namespace n into an empty directory
SingleExport(n) == ExportFrom(1, EmptyFn, n)

(***************************************************************************)
(* C27. Export is safely re-runnable: while the live objects are as they    *)
(* were at the first export, a backup that answers success leaves in its    *)
(* directory, whatever earlier complete or failed runs left there, the      *)
(* files of one uninterrupted export into an empty directory.               *)
(***************************************************************************)
ExportRerunnable ==
    [][\A p \in Procs :
          (bk[p].pc # "done" /\ bk'[p].pc = "done" /\ bk'[p].result = "ok"
           /\ updates' = 0)
              => disk'[bk'[p].id] = SingleExport(bk'[p].ns)]_vars

\* the objects the importer of kind k adds in a restore of the directory and
\* namespace of restore p that starts from the cluster C: one for each name
\* its files record that C does not hold, read from the first file of the name
AddedFrom(p, k, C) ==
    LET bytes == disk[rs[p].dir]
        held == {o.name : o \in {x \in C : x.kind = k /\ x.ns = rs[p].ns}}
    IN  {Stored(rs[p].ns, ImportNormalize(k, Unmarshal(k, bytes[f]), rs[p].ns)) :
            f \in {g \in FilesOf(p, k) :
                     /\ bytes[g].name \notin held
                     /\ \A h \in FilesOf(p, k) \ {g} :
                           bytes[h].name = bytes[g].name => NameLess(g, h)}}

(***************************************************************************)
(* C28. Resumable restore: a restore that follows, with the same directory  *)
(* and namespace and no failing collaborator, a restore that a failing      *)
(* collaborator ended after it had created objects, answers success and     *)
(* leaves the cluster that the earlier restore started from plus the        *)
(* objects an uninterrupted restore adds to it. (Read when the restore has  *)
(* returned and no request has come since.)                                 *)
(***************************************************************************)
ResumableRestore ==
    \A p \in Procs :
        (/\ rs[p].pc = "done"
         /\ rs[p].resumes
         /\ rs[p].before # rs[p].origin
         /\ ~rs[p].faulted
         /\ lastRun = RunRecord(rs[p]))
            => /\ rs[p].result = "ok"
               /\ cluster = rs[p].origin
                              \cup UNION {AddedFrom(p, k, rs[p].origin) :
                                            k \in {j \in Kinds : Called(p, j)}}

(***************************************************************************)
(* C29. At most one create per kind and name in one restore: with requests  *)
(* handled one at a time, a restore issues no Create call for a kind and    *)
(* name that it has itself made live in the target namespace, and so never  *)
(* ends with AlreadyExists.                                                 *)
(***************************************************************************)
NoSelfConflict ==
    [][\A p \in Procs :
          /\ (rs[p].pc = "create" /\ rs'[p] # rs[p] /\ faults' = faults)
                => ~\E o \in cluster \ rs[p].before :
                       /\ o.kind = rs[p].kind
                       /\ o.ns = rs[p].ns
                       /\ o.name = rs[p].obj.name
          /\ rs'[p].result # "AlreadyExists"]_vars

(***************************************************************************)
(* C30. Distinct identifiers under concurrency: two backup requests served  *)
(* by different handlers never hold the same backup id, and two             *)
(* registration requests served by different handlers never hold the same   *)
(* app id.                                                                  *)
(***************************************************************************)
DistinctIds ==
    \A p, q \in Procs :
        p # q => /\ (bk[p].id # 0 /\ bk[q].id # 0) => bk[p].id # bk[q].id
                 /\ (da[p].id # 0 /\ da[q].id # 0) => da[p].id # da[q].id

(***************************************************************************)
(* C31. Fresh directory per backup: the directory a backup request starts   *)
(* to export into holds no file written by an earlier backup, also when the *)
(* process was started again in between.                                    *)
(***************************************************************************)
FreshDirectory ==
    [][\A p \in Procs :
          (bk[p].pc \in {"idle", "done"} /\ bk'[p].pc = "export")
              => DirFiles(bk'[p].id) = {}]_vars

(***************************************************************************)
(* C32. Registry of backups: when a backup request ends, its backup id is   *)
(* in the registry exactly when the last of the nine exporters returned     *)
(* without error, and the registry changes in no other way; a request with  *)
(* an unknown app id gets no backup id, leaves the counter and the disk as  *)
(* they were; a request that fails in an exporter has taken its id from the *)
(* counter and leaves its directory on disk, unregistered.                  *)
(***************************************************************************)
BackupEnds(p) == bk[p].pc # "done" /\ bk'[p].pc = "done"

BackupArrivesAndEnds(p) ==
    bk[p].pc \in {"idle", "done"} /\ bk'[p] # bk[p] /\ bk'[p].pc = "done"

RegistryExact ==
    [][/\ \A p \in Procs :
             (BackupEnds(p) \/ BackupArrivesAndEnds(p))
                => /\ (bk'[p].id \in DOMAIN backups') <=> (bk'[p].result = "ok")
                   /\ bk'[p].result = "ok"
                         => /\ bk[p].step = Len(ExportOrder)
                            /\ backups' = (bk'[p].id :> bk'[p].app) @@ backups
                   /\ bk'[p].result # "ok" => backups' = backups
                   /\ bk'[p].result = "Invalid app_id"
                         => /\ bk'[p].id = 0
                            /\ backupCounter' = backupCounter
                            /\ disk' = disk
                   /\ (bk'[p].result \notin {"ok", "Invalid app_id"} /\ bk[p].step >= 1)
                         => /\ bk'[p].id \in 1..backupCounter'
                            /\ bk'[p].id \in DOMAIN disk'
       /\ (backups' # backups /\ restarts' = restarts)
             => \E p \in Procs : BackupEnds(p) /\ bk'[p].result = "ok"]_vars

(***************************************************************************)
(* C33. Restore of registered backups only: a restore request creates an    *)
(* object only when the backup id it names was in the registry of backups   *)
(* when the request arrived.                                                *)
(***************************************************************************)
RegisteredOnly ==
    [][\A p \in Procs :
          (rs[p].pc = "create" /\ cluster' # cluster) => rs[p].reg]_vars

(***************************************************************************)
(* C34. The target namespace is looked up first: a restore request is taken *)
(* up only for a namespace that exists and whose lookup did not fail; when  *)
(* the lookup fails the request ends at once as "Namespace does not exist", *)
(* with the cluster and the disk as they were, no file read and nothing     *)
(* created; no later step of a restore gives that answer.                   *)
(***************************************************************************)
RestoreArrives(p) == restores' # restores /\ rs'[p] # rs[p]

NamespaceFirst ==
    [][\A p \in Procs :
          /\ RestoreArrives(p)
                => \/ /\ rs'[p].pc = "range"
                      /\ rs'[p].ns \in Namespaces
                      /\ faults' = faults
                   \/ /\ rs'[p].pc = "done"
                      /\ rs'[p].result = "Namespace does not exist"
                      /\ rs'[p].created = 0
                      /\ rs'[p].files = <<>>
                      /\ rs'[p].existing = {}
                      /\ cluster' = cluster
                      /\ disk' = disk
          /\ (~RestoreArrives(p) /\ rs'[p] # rs[p] /\ restarts' = restarts)
                => rs'[p].result # "Namespace does not exist"]_vars

\* a request has been turned away although a registered backup with files is
\* on disk
NamespaceFirstWitness ==
    \E p \in Procs :
        /\ rs[p].pc = "done"
        /\ rs[p].result = "Namespace does not exist"
        /\ \E d \in DOMAIN backups : DirFiles(d) # {}

(***************************************************************************)
(* C35. Distinct snapshots, distinct files: the file an exporter is about   *)
(* to write, or to leave alone because it exists, for a live object is, if  *)
(* it exists and is whole, a snapshot of an object of the same kind and     *)
(* name; no two objects of one backup meet in one file.                     *)
(***************************************************************************)
DistinctFiles ==
    \A p \in Procs :
        bk[p].pc = "write"
            => \A o \in bk[p].items :
                  LET k == ExportOrder[bk[p].step]
                      f == ExportFile(k, o.name)
                  IN  (/\ ~ExportSkipsName(k, o.name)
                       /\ f \in DirFiles(bk[p].id)
                       /\ disk[bk[p].id][f].valid)
                          => /\ disk[bk[p].id][f].struct = k
                             /\ disk[bk[p].id][f].name = o.name

(***************************************************************************)
(* C36. Registration accepts every new application: for a name and a        *)
(* namespace that no registered application has together, the key           *)
(* defineApplication looks up is absent from appNameNamespaceMap, so the    *)
(* request is not turned away; this for names and namespaces with "_" too.  *)
(***************************************************************************)
AcceptsNew ==
    \A name \in RegNames, n \in RegNamespaces :
        (\A id \in DOMAIN apps : apps[id] # [name |-> name, namespace |-> n])
            => AppKey(name, n) \notin DOMAIN appNameNamespaceMap

====
